---- MODULE Spec2Model ----
(***************************************************************************)
(* Model of c_headers/acrust.h, the host-compatibility configuration       *)
(* header of acpica-sys.  The header is a preprocessor program: its state  *)
(* is the macro table, the stack of open conditionals and the position in  *)
(* the directive list.  Its inputs are the build switches (CONFIG_ACPI,    *)
(* CONFIG_ACPI_REDUCED_HARDWARE_ONLY, CONFIG_ACPI_DEBUGGER,                *)
(* CONFIG_ACPI_DEBUG), the macros already defined when it is included and  *)
(* the host data model.  After configuration the resolved entry points are *)
(* called and values are stored through the bound primitive types.         *)
(***************************************************************************)
EXTENDS Integers, Sequences, FiniteSets, TLC

(* ------------------------------ bounds --------------------------------- *)

\* how many times the header is included in one translation unit
MaxIncludes == 2

\* arguments of a call are drawn from 0..MaxArg
MaxArg == 1

\* a 32-bit limb of a machine value is abstracted to 0..MaxLimb
MaxLimb == 1

\* host resource counters (allocations, lock acquisitions) are capped
MaxHost == 1

(* --------------------------- the directive list ------------------------ *)

Dir(l, k, n, p, b) == [line |-> l, kind |-> k, name |-> n, params |-> p, body |-> b]

Ifndef(l, n)    == Dir(l, "ifndef", n, <<>>, <<>>)
Ifdef(l, n)     == Dir(l, "ifdef", n, <<>>, <<>>)
Endif(l)        == Dir(l, "endif", "", <<>>, <<>>)
Undef(l, n)     == Dir(l, "undef", n, <<>>, <<>>)
Def(l, n, b)    == Dir(l, "define", n, <<>>, b)
Fn(l, n, p, b)  == Dir(l, "define", n, p, b)

\* body of a generated stub: static ACPI_INLINE Prototype { return (v); }
StubBody(v) ==
    <<"static", "ACPI_INLINE", "Prototype", "{", "return", "(", v, ")", ";", "}">>

\* body of the void stub: static ACPI_INLINE Prototype { return; }
VoidStubBody ==
    <<"static", "ACPI_INLINE", "Prototype", "{", "return", ";", "}">>

\* lines 44-53: include guard and common configuration
GuardDirectives ==
    << Ifndef(44, "__ACRUST_H__"),
       Def(45, "__ACRUST_H__", <<>>),
       Def(49, "ACPI_USE_DO_WHILE_0", <<>>),
       Def(50, "ACPI_IGNORE_PACKAGE_RESOLUTION_ERRORS", <<>>),
       Def(52, "ACPI_USE_SYSTEM_INTTYPES", <<>>),
       Def(53, "ACPI_USE_GPE_POLLING", <<>>) >>

\* lines 57-69: the secondary switches and the init-function attribute
SecondarySwitches ==
    << Ifdef(57, "CONFIG_ACPI_REDUCED_HARDWARE_ONLY"),
       Def(58, "ACPI_REDUCED_HARDWARE", <<"1">>),
       Endif(59),
       Ifdef(61, "CONFIG_ACPI_DEBUGGER"),
       Def(62, "ACPI_DEBUGGER", <<>>),
       Endif(63),
       Ifdef(65, "CONFIG_ACPI_DEBUG"),
       Def(66, "ACPI_MUTEX_DEBUG", <<>>),
       Endif(67),
       Def(69, "ACPI_INIT_FUNCTION", <<"__init">>) >>

\* a slip: the library's default is kept when there is one (#ifndef instead
\* of #undef)
DebugDefaultKept ==
    << Ifndef(73, "ACPI_DEBUG_DEFAULT"),
       Def(74, "ACPI_DEBUG_DEFAULT",
           <<"(", "ACPI_LV_INFO", "|", "ACPI_LV_REPAIR", ")">>),
       Endif(74) >>

\* lines 73-74: the default debug level
DebugDefault ==
    << Undef(73, "ACPI_DEBUG_DEFAULT"),
       Def(74, "ACPI_DEBUG_DEFAULT",
           <<"(", "ACPI_LV_INFO", "|", "ACPI_LV_REPAIR", ")">>) >>

\* a slip: the block tests the debugger switch instead of CONFIG_ACPI
StubGuardWrongSwitch == Ifndef(76, "CONFIG_ACPI_DEBUGGER")

\* a slip: the block is compiled when CONFIG_ACPI is defined
StubGuardIfdef == Ifdef(76, "CONFIG_ACPI")

\* line 76: the stubs are compiled only when CONFIG_ACPI is not defined
StubGuard == Ifndef(76, "CONFIG_ACPI")

\* a slip: the pointer stub returns a status code
StubGeneratorsPtrStatus ==
    << Fn(94, "ACPI_EXTERNAL_RETURN_STATUS", <<"Prototype">>,
          StubBody("AE_NOT_CONFIGURED")),
       Fn(96, "ACPI_EXTERNAL_RETURN_OK", <<"Prototype">>, StubBody("AE_OK")),
       Fn(98, "ACPI_EXTERNAL_RETURN_VOID", <<"Prototype">>, VoidStubBody),
       Fn(100, "ACPI_EXTERNAL_RETURN_UINT32", <<"Prototype">>, StubBody("0")),
       Fn(102, "ACPI_EXTERNAL_RETURN_PTR", <<"Prototype">>,
          StubBody("AE_NOT_CONFIGURED")) >>

\* lines 94-103: the stub generators
StubGenerators ==
    << Fn(94, "ACPI_EXTERNAL_RETURN_STATUS", <<"Prototype">>,
          StubBody("AE_NOT_CONFIGURED")),
       Fn(96, "ACPI_EXTERNAL_RETURN_OK", <<"Prototype">>, StubBody("AE_OK")),
       Fn(98, "ACPI_EXTERNAL_RETURN_VOID", <<"Prototype">>, VoidStubBody),
       Fn(100, "ACPI_EXTERNAL_RETURN_UINT32", <<"Prototype">>, StubBody("0")),
       Fn(102, "ACPI_EXTERNAL_RETURN_PTR", <<"Prototype">>, StubBody("NULL")) >>

\* lines 76-105: the block compiled only when CONFIG_ACPI is not defined
StubDirectives ==
    << StubGuard,
       Fn(80, "ACPI_GLOBAL", <<"t", "a">>, <<>>),
       Fn(81, "ACPI_INIT_GLOBAL", <<"t", "a", "b">>, <<>>),
       Def(85, "ACPI_NO_MEM_ALLOCATIONS", <<>>),
       Def(89, "ACPI_NO_ERROR_MESSAGES", <<>>),
       Undef(90, "ACPI_DEBUG_OUTPUT") >>
    \o StubGenerators \o << Endif(105) >>

\* a slip: the pointer-sized integer is bound to unsigned int
IntegerTypesNarrow ==
    << Def(116, "ACPI_CPU_FLAGS", <<"unsigned", "long">>),
       Def(118, "ACPI_UINTPTR_T", <<"unsigned", "int">>),
       Fn(120, "ACPI_TO_INTEGER", <<"p">>,
          <<"(", "(", "unsigned", "int", ")", "(", "p", ")", ")">>) >>

\* lines 116-120: the CPU-flags word, the pointer-sized integer and the
\* conversion of a pointer to an integer
IntegerTypes ==
    << Def(116, "ACPI_CPU_FLAGS", <<"unsigned", "long">>),
       Def(118, "ACPI_UINTPTR_T", <<"uintptr_t">>),
       Fn(120, "ACPI_TO_INTEGER", <<"p">>,
          <<"(", "(", "uintptr_t", ")", "(", "p", ")", ")">>) >>

\* lines 109-121: host-dependent types and defines
TypeDirectives ==
    << Def(109, "ACPI_MACHINE_WIDTH", <<"BITS_PER_LONG">>),
       Def(110, "ACPI_USE_NATIVE_MATH64", <<>>),
       Fn(111, "ACPI_EXPORT_SYMBOL", <<"symbol">>,
          <<"EXPORT_SYMBOL", "(", "symbol", ")", ";">>),
       Def(112, "strtoul", <<"simple_strtoul">>),
       Def(114, "ACPI_CACHE_T", <<"struct", "kmem_cache">>),
       Def(115, "ACPI_SPINLOCK", <<"spinlock_t", "*">>) >>
    \o IntegerTypes
    \o << Fn(121, "ACPI_OFFSET", <<"d", "f">>,
             <<"offsetof", "(", "d", ",", "f", ")">>) >>

AltPrefix == "ACPI_USE_ALTERNATE_PROTOTYPE_"

\* lines 123-152: the entry points given an alternate prototype, each with
\* the heading of the block that lists it
AlternateList ==
    << [line |-> 126, name |-> "AcpiOsInitialize",         use |-> "in-kernel"],
       [line |-> 127, name |-> "AcpiOsTerminate",          use |-> "in-kernel"],
       [line |-> 128, name |-> "AcpiOsAllocate",           use |-> "in-kernel"],
       [line |-> 129, name |-> "AcpiOsAllocateZeroed",     use |-> "in-kernel"],
       [line |-> 130, name |-> "AcpiOsFree",               use |-> "in-kernel"],
       [line |-> 131, name |-> "AcpiOsAcquireObject",      use |-> "in-kernel"],
       [line |-> 132, name |-> "AcpiOsGetThreadId",        use |-> "in-kernel"],
       [line |-> 133, name |-> "AcpiOsCreateLock",         use |-> "in-kernel"],
       [line |-> 138, name |-> "AcpiOsReadable",           use |-> "debugger"],
       [line |-> 139, name |-> "AcpiOsWritable",           use |-> "debugger"],
       [line |-> 140, name |-> "AcpiOsInitializeDebugger", use |-> "debugger"],
       [line |-> 141, name |-> "AcpiOsTerminateDebugger",  use |-> "debugger"],
       [line |-> 146, name |-> "AcpiOsRedirectOutput",     use |-> "utilities"],
       [line |-> 147, name |-> "AcpiOsGetTableByName",     use |-> "utilities"],
       [line |-> 148, name |-> "AcpiOsGetTableByIndex",    use |-> "utilities"],
       [line |-> 149, name |-> "AcpiOsGetTableByAddress",  use |-> "utilities"],
       [line |-> 150, name |-> "AcpiOsOpenDirectory",      use |-> "utilities"],
       [line |-> 151, name |-> "AcpiOsGetNextFilename",    use |-> "utilities"],
       [line |-> 152, name |-> "AcpiOsCloseDirectory",     use |-> "utilities"] >>

\* #define ACPI_USE_ALTERNATE_PROTOTYPE_<name>
AlternateDirectives ==
    [i \in 1..Len(AlternateList) |->
        Def(AlternateList[i].line, AltPrefix \o AlternateList[i].name, <<>>)]

\* a slip: the prefixes of the informational classes of the Linux header
\* are kept
MessageDirectivesLinux ==
    << Def(154, "ACPI_MSG_ERROR", <<"KERN_ERR", "">>),
       Def(155, "ACPI_MSG_EXCEPTION", <<"KERN_ERR", "@FATAL">>),
       Def(156, "ACPI_MSG_WARNING", <<"KERN_WARNING", "">>),
       Def(157, "ACPI_MSG_INFO", <<"KERN_INFO", "ACPI: ">>),
       Def(159, "ACPI_MSG_BIOS_ERROR", <<"KERN_ERR", "ACPI BIOS Error (bug): ">>),
       Def(160, "ACPI_MSG_BIOS_WARNING",
           <<"KERN_WARNING", "ACPI BIOS Warning (bug): ">>) >>

\* lines 154-160: message prefixes
MessageDirectives ==
    << Def(154, "ACPI_MSG_ERROR", <<"KERN_ERR", "">>),
       Def(155, "ACPI_MSG_EXCEPTION", <<"KERN_ERR", "@FATAL">>),
       Def(156, "ACPI_MSG_WARNING", <<"KERN_WARNING", "">>),
       Def(157, "ACPI_MSG_INFO", <<"KERN_INFO", "">>),
       Def(159, "ACPI_MSG_BIOS_ERROR", <<"KERN_ERR", "ACPI BIOS Error (bug): ">>),
       Def(160, "ACPI_MSG_BIOS_WARNING",
           <<"KERN_WARNING", "ACPI BIOS Warning (bug): ">>) >>

\* lines 165-167: designated initializers, end of the include guard
TailDirectives ==
    << Fn(165, "ACPI_STRUCT_INIT", <<"field", "value">>,
          <<".", "field", "=", "value">>),
       Endif(167) >>

\* a slip: the #endif of line 105 comes after the alternate prototypes
DirectivesAltInStub ==
    GuardDirectives \o SecondarySwitches \o DebugDefault
        \o SubSeq(StubDirectives, 1, Len(StubDirectives) - 1)
        \o TypeDirectives \o AlternateDirectives \o << Endif(152) >>
        \o MessageDirectives \o TailDirectives

\* the header, lines 44-167
Directives ==
    GuardDirectives \o SecondarySwitches \o DebugDefault \o StubDirectives
        \o TypeDirectives \o AlternateDirectives \o MessageDirectives
        \o TailDirectives

NDir == Len(Directives)

(* ------------------------------ inputs --------------------------------- *)

\* the build switches the header tests
Switches ==
    {"CONFIG_ACPI", "CONFIG_ACPI_REDUCED_HARDWARE_ONLY",
     "CONFIG_ACPI_DEBUGGER", "CONFIG_ACPI_DEBUG"}

\* macros the header undefines, which may be defined before it is included
Predefinable == {"ACPI_DEBUG_DEFAULT", "ACPI_DEBUG_OUTPUT"}

\* what a macro defined before the header expands to
PreBody(n) ==
    IF n = "ACPI_DEBUG_DEFAULT" THEN <<"ACPI_NORMAL_DEFAULT">> ELSE <<>>

InitialTable(S) == [n \in S |-> [params |-> <<>>, body |-> PreBody(n)]]

\* host data models: width in bits of long (BITS_PER_LONG) and of a pointer
DataModels ==
    { [name |-> "ILP32", longBits |-> 32, ptrBits |-> 32],
      [name |-> "LP64",  longBits |-> 64, ptrBits |-> 64] }

(* ------------------------------- state --------------------------------- *)

VARIABLES
    table,      \* macro table: name -> [params, body]
    cond,       \* stack of open conditionals, TRUE = group is compiled
    pc,         \* index of the next directive, 0 = past the end of the header
    passes,     \* completed inclusions of the header
    phase,      \* "config" while preprocessing, "runtime" afterwards
    host,       \* the host data model
    allocs,     \* host allocations made so far
    locks,      \* host lock acquisitions made so far
    op          \* the runtime operation in progress and what it did

vars == <<table, cond, pc, passes, phase, host, allocs, locks, op>>

NoOp == [kind |-> "none"]

Init ==
    /\ table \in {InitialTable(S) : S \in SUBSET (Switches \cup Predefinable)}
    /\ cond = <<>>
    /\ pc = 1
    /\ passes = 0
    /\ phase = "config"
    /\ host \in DataModels
    /\ allocs = 0
    /\ locks = 0
    /\ op = NoOp

(* --------------------------- the preprocessor -------------------------- *)

Defined(n, tbl) == n \in DOMAIN tbl

\* a group is compiled when every enclosing conditional is taken
Active(stack) == \A i \in 1..Len(stack) : stack[i]

\* #ifdef / #ifndef test
CondTest(d, tbl) ==
    IF d.kind = "ifdef" THEN Defined(d.name, tbl) ELSE ~Defined(d.name, tbl)

\* #define: the macro gets the directive's parameters and body
DefineIn(tbl, d) ==
    (d.name :> [params |-> d.params, body |-> d.body]) @@ tbl

\* #undef
UndefIn(tbl, d) == [n \in DOMAIN tbl \ {d.name} |-> tbl[n]]

\* #endif closes the innermost conditional
Pop(stack) == SubSeq(stack, 1, Len(stack) - 1)

\* the macro table after directive d
NextTable(tbl, stack, d) ==
    IF d.kind = "define" /\ Active(stack) THEN DefineIn(tbl, d)
    ELSE IF d.kind = "undef" /\ Active(stack) THEN UndefIn(tbl, d)
    ELSE tbl

\* the stack of conditionals after directive d
NextCond(stack, tbl, d) ==
    IF d.kind \in {"ifdef", "ifndef"} THEN Append(stack, CondTest(d, tbl))
    ELSE IF d.kind = "endif" THEN Pop(stack)
    ELSE stack

\* macro table and stack of conditionals after directive d
StepState(st, d) ==
    [tbl   |-> NextTable(st.tbl, st.stack, d),
     stack |-> NextCond(st.stack, st.tbl, d)]

RECURSIVE RunRange(_, _, _)
\* the state after the directives lo..hi, in order: the first half is
\* processed to its end before the second half starts
RunRange(st, lo, hi) ==
    IF lo = hi THEN StepState(st, Directives[lo])
    ELSE LET mid  == (lo + hi) \div 2
             left == RunRange(st, lo, mid)
         IN  IF DOMAIN left = {"tbl", "stack"}
             THEN RunRange(left, mid + 1, hi)
             ELSE left

\* the macro table one inclusion of the header leaves, given the macros
\* defined before it
FinalTable(S) ==
    RunRange([tbl |-> InitialTable(S), stack |-> <<>>], 1, NDir).tbl

\* the tables of the two configurations without any secondary switch
PlainDisabled == FinalTable({})

PlainEnabled == FinalTable({"CONFIG_ACPI"})

Cur == Directives[pc]

InHeader == phase = "config" /\ pc \in 1..NDir

\* move to the next directive; the end of the file completes an inclusion
Advance ==
    /\ pc' = IF pc = NDir THEN 0 ELSE pc + 1
    /\ passes' = IF pc = NDir THEN passes + 1 ELSE passes
    /\ UNCHANGED <<phase, host, allocs, locks, op>>

\* a further #include of the header in the same translation unit
Include ==
    /\ phase = "config" /\ pc = 0 /\ passes < MaxIncludes
    /\ pc' = 1
    /\ UNCHANGED <<table, cond, passes, phase, host, allocs, locks, op>>

DoIfdef ==
    /\ InHeader /\ Cur.kind = "ifdef"
    /\ cond' = NextCond(cond, table, Cur)
    /\ UNCHANGED table
    /\ Advance

DoIfndef ==
    /\ InHeader /\ Cur.kind = "ifndef"
    /\ cond' = NextCond(cond, table, Cur)
    /\ UNCHANGED table
    /\ Advance

DoEndif ==
    /\ InHeader /\ Cur.kind = "endif"
    /\ cond' = NextCond(cond, table, Cur)
    /\ UNCHANGED table
    /\ Advance

DoDefine ==
    /\ InHeader /\ Cur.kind = "define"
    /\ table' = NextTable(table, cond, Cur)
    /\ UNCHANGED cond
    /\ Advance

DoUndef ==
    /\ InHeader /\ Cur.kind = "undef"
    /\ table' = NextTable(table, cond, Cur)
    /\ UNCHANGED cond
    /\ Advance

\* configuration is over: the library is compiled and linked against the
\* resolved table
Link ==
    /\ phase = "config" /\ pc = 0
    /\ phase' = "runtime"
    /\ UNCHANGED <<table, cond, pc, passes, host, allocs, locks, op>>

(* ---------------------------- entry points ----------------------------- *)

\* the stub generators of lines 94-103, by the kind of stub they generate
Generators ==
    {"ACPI_EXTERNAL_RETURN_STATUS", "ACPI_EXTERNAL_RETURN_OK",
     "ACPI_EXTERNAL_RETURN_VOID", "ACPI_EXTERNAL_RETURN_UINT32",
     "ACPI_EXTERNAL_RETURN_PTR"}

\* entry points of the library's external interface, which the library
\* declares through a generator: one entry per kind of stub
ExternalEntries ==
    { [name |-> "AcpiInitializeSubsystem", gen |-> "ACPI_EXTERNAL_RETURN_STATUS"],
      [name |-> "ExternalOkEntry",     gen |-> "ACPI_EXTERNAL_RETURN_OK"],
      [name |-> "ExternalVoidEntry",   gen |-> "ACPI_EXTERNAL_RETURN_VOID"],
      [name |-> "ExternalUint32Entry", gen |-> "ACPI_EXTERNAL_RETURN_UINT32"],
      [name |-> "ExternalPtrEntry",    gen |-> "ACPI_EXTERNAL_RETURN_PTR"] }

\* entry points of the OS services layer named by the header
OslEntries ==
    { [name |-> AlternateList[i].name, gen |-> ""] : i \in 1..Len(AlternateList) }

Entries == ExternalEntries \cup OslEntries

\* the entry points whose alternate-prototype macro is defined
AlternateSubset(tbl) == {E \in Entries : Defined(AltPrefix \o E.name, tbl)}

\* Stub when the entry's generator is one the header defined, else Delegate
Mode(E, tbl) == IF Defined(E.gen, tbl) THEN "Stub" ELSE "Delegate"

\* per-entry resolution state
Resolution(E, tbl, done) ==
    IF Defined(AltPrefix \o E.name, tbl) THEN "AlternateDelegate"
    ELSE IF Defined(E.gen, tbl) THEN "Stub"
    ELSE IF done >= 1 THEN "Delegate"
    ELSE "Unresolved"

\* the implementations visible under the entry's name once configured:
\*   "stub"    the body generated by the header's generator macro
\*   "library" the library's own implementation, compiled when the
\*             subsystem is compiled in
\*   "default" the library's default prototype of an OS service
\*   "host"    the host's own implementation of an OS service
Bindings(E, tbl) ==
    IF E.gen # ""
    THEN (IF Defined(E.gen, tbl) THEN {"stub"} ELSE {})
            \cup (IF Defined("CONFIG_ACPI", tbl) THEN {"library"} ELSE {})
    ELSE (IF Defined(AltPrefix \o E.name, tbl) THEN {} ELSE {"default"})
            \cup {"host"}

\* position of the first token t in a body, 0 when absent
IndexOf(body, t) ==
    IF \E i \in 1..Len(body) : body[i] = t
    THEN CHOOSE i \in 1..Len(body) :
            body[i] = t /\ \A j \in 1..(i - 1) : body[j] # t
    ELSE 0

\* the value a generated stub returns: the operand of its return statement
StubReturn(body) ==
    LET r == IndexOf(body, "return") IN
    IF body[r + 1] = ";" THEN "void" ELSE body[r + 2]

(* ----------------------- primitive type bindings ------------------------ *)

\* width in bits of a host type
TypeBits(tokens, h) ==
    IF tokens = <<"unsigned", "long">> THEN h.longBits
    ELSE IF tokens = <<"uintptr_t">> THEN h.ptrBits
    ELSE IF tokens[Len(tokens)] = "*" THEN h.ptrBits
    ELSE 32

\* value of a width macro
WidthValue(tokens, h) ==
    IF tokens = <<"BITS_PER_LONG">> THEN h.longBits ELSE 32

\* the type named by the cast of ACPI_TO_INTEGER: ((type)(p))
CastType(body) == SubSeq(body, 3, IndexOf(body, ")") - 1)

\* machine values are sequences of 32-bit limbs, least significant first
Limbs(w) == w \div 32

Values(w) == [1..Limbs(w) -> 0..MaxLimb]

\* conversion to an unsigned type of width w: truncate or zero-extend
Convert(v, w) == [i \in 1..Limbs(w) |-> IF i <= Len(v) THEN v[i] ELSE 0]

\* a macro's definition, with a marker body when it has none
Lookup(tbl, n) ==
    IF Defined(n, tbl) THEN tbl[n] ELSE [params |-> <<>>, body |-> <<"#undefined">>]

\* ACPI_MACHINE_WIDTH in bits
MachineWidth(tbl, h) == WidthValue(Lookup(tbl, "ACPI_MACHINE_WIDTH").body, h)

\* the categories or-ed together in ACPI_DEBUG_DEFAULT
Verbosity(tbl) ==
    LET body == Lookup(tbl, "ACPI_DEBUG_DEFAULT").body
    IN  {body[i] : i \in 1..Len(body)} \ {"(", "|", ")"}

\* the macro of each message class
MessageMacro ==
    [Error       |-> "ACPI_MSG_ERROR",
     Exception   |-> "ACPI_MSG_EXCEPTION",
     Warning     |-> "ACPI_MSG_WARNING",
     Info        |-> "ACPI_MSG_INFO",
     BiosError   |-> "ACPI_MSG_BIOS_ERROR",
     BiosWarning |-> "ACPI_MSG_BIOS_WARNING"]

MessageClasses == DOMAIN MessageMacro

\* a message macro is a log level followed by a prefix literal
MessageOf(tbl, c) ==
    LET body == Lookup(tbl, MessageMacro[c]).body
    IN  IF Len(body) = 2 THEN [level |-> body[1], prefix |-> body[2]]
        ELSE [level |-> "#none", prefix |-> "#none"]

\* the macros that bind the primitive types
TypeMacros ==
    {"ACPI_MACHINE_WIDTH", "ACPI_CACHE_T", "ACPI_SPINLOCK", "ACPI_CPU_FLAGS",
     "ACPI_UINTPTR_T", "ACPI_TO_INTEGER"}

TypeBindings(tbl) == [n \in TypeMacros |-> Lookup(tbl, n)]

MessageMapping(tbl) == [c \in MessageClasses |-> MessageOf(tbl, c)]

\* what the library sees of a configuration: entry modes, types, messages
Outcome(tbl) ==
    [modes |-> [E \in Entries |-> Resolution(E, tbl, 1)],
     types |-> TypeBindings(tbl),
     msgs  |-> MessageMapping(tbl)]

(* ------------------------------ runtime -------------------------------- *)

\* status values a real implementation may return
HostReturns == {"AE_OK", "AE_NO_MEMORY"}

\* a call of entry point E with argument a
Call(E, a) ==
    /\ phase = "runtime" /\ op = NoOp
    /\ IF Mode(E, table) = "Stub"
       THEN /\ op' = [kind |-> "call", entry |-> E, arg |-> a, seen |-> <<>>,
                      hostRet |-> "none",
                      ret |-> StubReturn(table[E.gen].body)]
            /\ UNCHANGED <<allocs, locks>>
       ELSE \E r \in HostReturns, da \in 0..1, dl \in 0..1 :
            /\ allocs + da <= MaxHost
            /\ locks + dl <= MaxHost
            /\ allocs' = allocs + da
            /\ locks' = locks + dl
            /\ op' = [kind |-> "call", entry |-> E, arg |-> a,
                      seen |-> << [name |-> E.name, arg |-> a] >>,
                      hostRet |-> r, ret |-> r]
    /\ UNCHANGED <<table, cond, pc, passes, phase, host>>

\* a pointer is converted with ACPI_TO_INTEGER, kept in an ACPI_UINTPTR_T,
\* stored in a slot of ACPI_MACHINE_WIDTH bits and converted back
StorePointer(v) ==
    /\ phase = "runtime" /\ op = NoOp
    /\ LET int  == Convert(v, TypeBits(CastType(table["ACPI_TO_INTEGER"].body), host))
           uint == Convert(int, TypeBits(table["ACPI_UINTPTR_T"].body, host))
           slot == Convert(uint, WidthValue(table["ACPI_MACHINE_WIDTH"].body, host))
       IN  op' = [kind |-> "pointer", value |-> v, slot |-> slot,
                  back |-> Convert(slot, host.ptrBits)]
    /\ UNCHANGED <<table, cond, pc, passes, phase, host, allocs, locks>>

\* the host's interrupt-flags word (an unsigned long) is kept in an
\* ACPI_CPU_FLAGS while a lock is held and handed back on release
SaveFlags(f) ==
    /\ phase = "runtime" /\ op = NoOp
    /\ LET saved == Convert(f, TypeBits(table["ACPI_CPU_FLAGS"].body, host))
       IN  op' = [kind |-> "flags", value |-> f, slot |-> saved,
                  back |-> Convert(saved, host.longBits)]
    /\ UNCHANGED <<table, cond, pc, passes, phase, host, allocs, locks>>

\* the operation in progress returns to its caller
Return ==
    /\ phase = "runtime" /\ op # NoOp
    /\ op' = NoOp
    /\ UNCHANGED <<table, cond, pc, passes, phase, host, allocs, locks>>

Next ==
    \/ Include
    \/ DoIfdef
    \/ DoIfndef
    \/ DoEndif
    \/ DoDefine
    \/ DoUndef
    \/ Link
    \/ \E E \in Entries, a \in 0..MaxArg : Call(E, a)
    \/ \E v \in Values(host.ptrBits) : StorePointer(v)
    \/ \E f \in Values(host.longBits) : SaveFlags(f)
    \/ Return

Spec == Init /\ [][Next]_vars


\* the preprocessor always reaches the end of the file
Preprocess == DoIfdef \/ DoIfndef \/ DoEndif \/ DoDefine \/ DoUndef

LiveSpec == Init /\ [][Next]_vars /\ WF_vars(Preprocess)

(* ------------------------------ properties ----------------------------- *)

Flag == Defined("CONFIG_ACPI", table)

\* an inclusion of the header is complete
Configured == pc = 0

Res(E) == Resolution(E, table, passes)

Osl(n) == [name |-> n, gen |-> ""]

InitializeSubsystem ==
    [name |-> "AcpiInitializeSubsystem", gen |-> "ACPI_EXTERNAL_RETURN_STATUS"]

\* C1: once the header is processed, for both values of CONFIG_ACPI every
\* entry point has exactly one implementation under its name: never none,
\* never two; in particular the alternate-prototype entries when CONFIG_ACPI
\* is not defined.
C1_ExactlyOneBinding ==
    Configured => \A E \in Entries : Cardinality(Bindings(E, table)) = 1

C1_Witness ==
    /\ Configured /\ ~Flag
    /\ Bindings(Osl("AcpiOsInitialize"), table) = {"host"}
    /\ Bindings(InitializeSubsystem, table) = {"stub"}

\* the value each kind of stub returns
Sentinel ==
    [ACPI_EXTERNAL_RETURN_STATUS |-> "AE_NOT_CONFIGURED",
     ACPI_EXTERNAL_RETURN_OK     |-> "AE_OK",
     ACPI_EXTERNAL_RETURN_VOID   |-> "void",
     ACPI_EXTERNAL_RETURN_UINT32 |-> "0",
     ACPI_EXTERNAL_RETURN_PTR    |-> "NULL"]

\* C2: with CONFIG_ACPI not defined, a call of an entry point declared
\* through a generator returns the sentinel of its stub kind and does
\* nothing else: the host is not called, nothing is allocated, no lock is
\* taken.
C2_StubReturnsSentinel ==
    [][ (~Flag /\ op = NoOp /\ op'.kind = "call" /\ op'.entry \in ExternalEntries)
        => /\ op'.ret = Sentinel[op'.entry.gen]
           /\ op'.seen = <<>>
           /\ allocs' = allocs
           /\ locks' = locks ]_vars

C2_Witness ==
    /\ ~Flag /\ op.kind = "call"
    /\ op.entry.gen = "ACPI_EXTERNAL_RETURN_PTR"
    /\ op.ret = "NULL"
    /\ allocs = MaxHost /\ locks = MaxHost

\* C3: with CONFIG_ACPI defined, no entry point is a stub, and a call reaches
\* the real implementation exactly once, with the caller's argument, and
\* returns what the implementation returned.
C3_DelegatePassthrough ==
    Flag =>
        /\ Configured => \A E \in Entries : Mode(E, table) = "Delegate"
        /\ op.kind = "call" =>
              /\ op.seen = << [name |-> op.entry.name, arg |-> op.arg] >>
              /\ op.ret = op.hostRet

C3_Witness ==
    /\ Flag /\ op.kind = "call"
    /\ op.entry = InitializeSubsystem
    /\ op.arg = MaxArg
    /\ op.ret = "AE_NO_MEMORY"

\* C4: every entry point of the alternate-prototype list is resolved to
\* AlternateDelegate once the header is processed, whatever CONFIG_ACPI and
\* the other switches are.
C4_AlternateAlways ==
    passes >= 1 => \A E \in OslEntries : Res(E) = "AlternateDelegate"

C4_Witness ==
    /\ Configured /\ Flag
    /\ Defined("CONFIG_ACPI_DEBUGGER", table)
    /\ Res(Osl("AcpiOsReadable")) = "AlternateDelegate"
    /\ Res(InitializeSubsystem) = "Delegate"

\* the heading under which the header lists an alternate-prototype entry
UseOf(n) ==
    IF \E i \in 1..Len(AlternateList) : AlternateList[i].name = n
    THEN LET i == CHOOSE j \in 1..Len(AlternateList) : AlternateList[j].name = n
         IN  AlternateList[i].use
    ELSE "none"

AlternateNames == {E.name : E \in AlternateSubset(table)}

\* C5 as stated: the alternate-prototype subset holds only entries of the
\* debugger/disassembler and utility tooling.
C5_OnlyTooling ==
    Configured => \A n \in AlternateNames : UseOf(n) \in {"debugger", "utilities"}

\* the in-kernel overrides of lines 126-133
KernelOverrides ==
    {"AcpiOsInitialize", "AcpiOsTerminate", "AcpiOsAllocate",
     "AcpiOsAllocateZeroed", "AcpiOsFree", "AcpiOsAcquireObject",
     "AcpiOsGetThreadId", "AcpiOsCreateLock"}

\* C5 amended: besides the entries of the debugger/disassembler and utility
\* tooling, the alternate-prototype subset holds exactly the eight in-kernel
\* overrides (initialize, terminate, allocate, allocate-zeroed, free,
\* acquire-object, thread-id, lock creation), and the tooling entries are
\* all in it.
C5_ToolingAndKernelOverrides ==
    Configured =>
        /\ {n \in AlternateNames : UseOf(n) \notin {"debugger", "utilities"}}
              = KernelOverrides
        /\ Cardinality(AlternateNames \ KernelOverrides) = 11

C5_Witness ==
    /\ Configured /\ Flag
    /\ "AcpiOsAllocate" \in AlternateNames
    /\ "AcpiOsGetNextFilename" \in AlternateNames

\* C6: every entry point starts Unresolved, leaves Unresolved, never changes
\* once resolved, and an entry declared through a generator ends as Stub or
\* Delegate according to CONFIG_ACPI alone.
C6_ResolvedOnce ==
    /\ \A E \in Entries : Res(E) = "Unresolved"
    /\ [][\A E \in Entries : Res(E) # "Unresolved" => Res(E)' = Res(E)]_vars
    /\ <>(\A E \in Entries : Res(E) # "Unresolved")
    /\ [](Configured =>
            \A E \in ExternalEntries : Res(E) = IF Flag THEN "Delegate" ELSE "Stub")

C6_Witness ==
    /\ passes = MaxIncludes /\ Configured
    /\ \A E \in Entries : Res(E) \in {"Stub", "AlternateDelegate"}

\* C7: each of the six message classes has a level and a prefix; BiosError
\* is the error level with "ACPI BIOS Error (bug): ", Info is the info
\* level with an empty prefix, both BIOS classes have a non-empty prefix.
C7_MessageMapping ==
    Configured =>
        /\ \A c \in MessageClasses :
              /\ Defined(MessageMacro[c], table)
              /\ MessageOf(table, c).level \in {"KERN_ERR", "KERN_WARNING", "KERN_INFO"}
        /\ MessageOf(table, "BiosError")
              = [level |-> "KERN_ERR", prefix |-> "ACPI BIOS Error (bug): "]
        /\ MessageOf(table, "Info") = [level |-> "KERN_INFO", prefix |-> ""]
        /\ MessageOf(table, "BiosWarning").prefix # ""

C7_Witness ==
    /\ Configured /\ Flag
    /\ MessageOf(table, "BiosWarning")
          = [level |-> "KERN_WARNING", prefix |-> "ACPI BIOS Warning (bug): "]
    /\ MessageOf(table, "Exception").prefix = "@FATAL"

\* line 74 has been processed
PastDebugDefault ==
    passes >= 1 \/ (pc # 0 /\ Directives[pc].line > 74)

\* C8: from line 74 on, in every configuration and whatever default was
\* defined before, ACPI_DEBUG_DEFAULT is ACPI_LV_INFO | ACPI_LV_REPAIR, and
\* stays so.
C8_DebugDefault ==
    PastDebugDefault =>
        /\ Defined("ACPI_DEBUG_DEFAULT", table)
        /\ Verbosity(table) = {"ACPI_LV_INFO", "ACPI_LV_REPAIR"}

C8_Witness ==
    /\ passes = 1 /\ pc # 0 /\ Directives[pc].line = 74
    /\ Flag /\ Defined("CONFIG_ACPI_DEBUG", table)
    /\ Verbosity(table) = {"ACPI_LV_INFO", "ACPI_LV_REPAIR"}

\* C9: on every host data model ACPI_UINTPTR_T and ACPI_CPU_FLAGS are as wide
\* as ACPI_MACHINE_WIDTH, and a pointer or flags word stored through them
\* comes back unchanged.
C9_WidthsMatch ==
    Configured =>
        /\ TypeBits(Lookup(table, "ACPI_UINTPTR_T").body, host)
              = MachineWidth(table, host)
        /\ TypeBits(Lookup(table, "ACPI_CPU_FLAGS").body, host)
              = MachineWidth(table, host)
        /\ op.kind \in {"pointer", "flags"} => op.back = op.value

C9_Witness ==
    /\ op.kind = "pointer" /\ host.ptrBits = 64
    /\ op.value[2] = MaxLimb
    /\ op.back = op.value

\* the settings derived from the secondary switches
Derived ==
    [CONFIG_ACPI_REDUCED_HARDWARE_ONLY |-> "ACPI_REDUCED_HARDWARE",
     CONFIG_ACPI_DEBUGGER              |-> "ACPI_DEBUGGER",
     CONFIG_ACPI_DEBUG                 |-> "ACPI_MUTEX_DEBUG"]

\* the header has just been processed for the first time
AtEnd == phase = "config" /\ pc = 0 /\ passes = 1

\* C10: each secondary switch decides its own derived macro and nothing
\* else: entry modes, type bindings and message mappings are those of the
\* configuration with the same CONFIG_ACPI and no secondary switch, and the
\* type bindings and message mappings are the same for both values of
\* CONFIG_ACPI.
C10_SecondaryFrame ==
    AtEnd =>
        /\ \A sw \in DOMAIN Derived :
              Defined(Derived[sw], table) <=> Defined(sw, table)
        /\ Flag => Outcome(table) = Outcome(PlainEnabled)
        /\ ~Flag => Outcome(table) = Outcome(PlainDisabled)
        /\ TypeBindings(table) = TypeBindings(PlainDisabled)
        /\ MessageMapping(table) = MessageMapping(PlainDisabled)

C10_Witness ==
    /\ AtEnd /\ Flag
    /\ \A sw \in DOMAIN Derived : Defined(sw, table) /\ Defined(Derived[sw], table)
    /\ Defined("ACPI_CPU_FLAGS", table)

====
